---- MODULE Spec2Model ----
(***************************************************************************)
(* Model of the persistence layer of the soundboard bot (src/src/db.rs):   *)
(* the SQLite table "audio", the FTS5 external-content index "fts5_audio"  *)
(* with its three triggers, the AudioTable operations and the              *)
(* AudioTablePaginator iterator.  One pooled connection is modelled.       *)
(*                                                                         *)
(* Text values are sequences of one-character strings so that the SQL text *)
(* built with format!() can be inspected (a quote inside an interpolated   *)
(* value ends the SQL string literal).                                     *)
(***************************************************************************)
EXTENDS Integers, Sequences, FiniteSets, Bags, TLC

\* ------------------------------------------------------------------ bounds
\* largest page_limit given to AudioTablePaginatorBuilder::page_limit
MaxLimit == 2
\* number of pages after which the model stops calling Iterator::next
MaxPages == 3
\* largest row id the model lets the table assign
MaxId == 3
\* longest text given to fts_clean_text
MaxLen == 4

\* ------------------------------------------------------------ value domains
\* Option<T>: None is the empty sequence, Some(x) the sequence holding x
None == << >>
Some(x) == <<x>>

Names == { <<"a">>, <<"b">> }
Paths == { <<"x">>, <<"y">>, <<"o", "'", "z">> }
OrderBys == { "Id", "Name", "CreatedAt" }

\* the characters of the texts given to fts_clean_text and all the texts of
\* at most MaxLen of them
Chars == { "a", "Z", "1", ",", " ", "'", "-", "\n" }
Texts == UNION { [1..n -> Chars] : n \in 0..MaxLen }

\* AudioTableRowInsert: the values handed to insert_audio_row.  The second
\* shares its name with the first and its path with the third; the third and
\* the first have the same created_at; the fourth has a quote in its path.
Insert(name, audio_file, created_at, author) ==
    [name |-> name, tags |-> <<"t">>, audio_file |-> audio_file,
     created_at |-> created_at, author |-> author]

AudioTableRowInsert ==
    { Insert(<<"a">>, <<"x">>, 2, Some(7)),
      Insert(<<"a">>, <<"y">>, 1, None),
      Insert(<<"b">>, <<"y">>, 2, None),
      Insert(<<"b">>, <<"o", "'", "z">>, 1, Some(7)) }

\* the names of the three optional columns: the CREATE TABLE of create_table
\* calls them user_id, user_name, user_global_name
UserCols == "user"
\* insert_audio_row and TryFrom<&Row> call them author_id, author_name,
\* author_global_name
AuthorCols == "author"

\* ------------------------------------------------------------------- state
VARIABLES
    tbl,      \* TRUE iff table "audio" exists
    cols,     \* naming of the optional columns of "audio"
    rows,     \* the rows of "audio"
    fts,      \* TRUE iff virtual table "fts5_audio" exists
    idx,      \* content of the FTS5 index: a bag of [rowid, name, audio_file]
    trg,      \* which of the triggers audio_insert/_delete/_update exist
    txnOpen,  \* TRUE iff the connection is inside an open transaction
    pag,      \* the AudioTablePaginator, or None
    last,     \* the last call and what it returned
    usedIds,  \* every id ever assigned to a row (history)
    wr        \* the statement the connection is executing, step by step,
              \* and the rows and index entries other connections see

vars == <<tbl, cols, rows, fts, idx, trg, txnOpen, pag, last, usedIds, wr>>

NoTriggers == [insert |-> FALSE, delete |-> FALSE, update |-> FALSE]
AllTriggers == [insert |-> TRUE, delete |-> TRUE, update |-> TRUE]

\* ----------------------------------------------------------------- helpers
\* format!("... = '{v}' ") puts v between quotes without escaping it: a quote
\* inside v ends the SQL literal there.  The one value with a quote that the
\* operations are given, o'z, leaves z' behind the literal, and SQLite
\* refuses to compile the statement.
HasQuote(s) == \E i \in 1..Len(s) : s[i] = "'"

Max(S) == CHOOSE m \in S : \A x \in S : x <= m

Min2(a, b) == IF a <= b THEN a ELSE b

\* id INTEGER PRIMARY KEY (no AUTOINCREMENT): the rowid of a new row is one
\* more than the largest rowid currently in the table
NextRowId == IF rows = {} THEN 1 ELSE Max({r.id : r \in rows}) + 1

\* the check with the UNIQUE of column audio_file left out
UniqueOkNameOnly(name, audio_file, others) ==
    \A r \in others : r.name # name

\* name ... UNIQUE, audio_file ... UNIQUE: may a row with these values be
\* stored next to the rows in others?
UniqueOk(name, audio_file, others) ==
    \A r \in others : r.name # name /\ r.audio_file # audio_file

IdxEntry(r) == [rowid |-> r.id, name |-> r.name, audio_file |-> r.audio_file]

\* trigger audio_insert: INSERT INTO fts5_audio(rowid, name, audio_file)
audio_insert(ix, new) == ix (+) SetToBag({IdxEntry(new)})

\* trigger audio_delete: INSERT INTO fts5_audio(fts5_audio, rowid, ...)
\* VALUES('delete', old.id, old.name, old.audio_file)
audio_delete(ix, old) == ix (-) SetToBag({IdxEntry(old)})

\* trigger audio_update: 'delete' of the old values, insert of the new ones
audio_update(ix, old, new) == audio_insert(audio_delete(ix, old), new)

\* ----------------------------------------------------------- fts_clean_text
\* code points of the characters used (regex classes, BINARY collation)
Code(c) == CASE c = "\n" -> 10 [] c = " " -> 32 [] c = "'" -> 39
             [] c = "," -> 44 [] c = "-" -> 45 [] c = "1" -> 49
             [] c = "Z" -> 90 [] c = "a" -> 97 [] c = "b" -> 98
             [] c = "o" -> 111 [] c = "t" -> 116 [] c = "x" -> 120
             [] c = "y" -> 121 [] c = "z" -> 122

\* a-zA-Z0-9
IsAlnum(c) ==
    \/ Code(c) \in 48..57
    \/ Code(c) \in 65..90
    \/ Code(c) \in 97..122

\* \s of the regex crate and char::is_whitespace, on the characters used
IsSpace(c) == Code(c) \in {9, 10, 11, 12, 13, 32}

\* text.replace("'", "")
RECURSIVE RemoveApostrophes(_)
RemoveApostrophes(s) ==
    IF s = << >> THEN << >>
    ELSE IF Head(s) = "'" THEN RemoveApostrophes(Tail(s))
    ELSE <<Head(s)>> \o RemoveApostrophes(Tail(s))

\* Regex::new(r"[^a-zA-Z0-9, ]").replace_all(text, " ")
ReplaceNonAlnum(s) ==
    [i \in 1..Len(s) |->
        IF IsAlnum(s[i]) \/ s[i] = "," \/ s[i] = " " THEN s[i] ELSE " "]

\* number of whitespace characters s starts with
RECURSIVE SpaceRun(_)
SpaceRun(s) ==
    IF s = << >> THEN 0
    ELSE IF IsSpace(Head(s)) THEN 1 + SpaceRun(Tail(s))
    ELSE 0

\* Regex::new(r"\s{2,}").replace_all(text, " ")
RECURSIVE CollapseSpaces(_)
CollapseSpaces(s) ==
    IF s = << >> THEN << >>
    ELSE IF SpaceRun(s) >= 2
         THEN <<" ">> \o CollapseSpaces(SubSeq(s, SpaceRun(s) + 1, Len(s)))
    ELSE <<Head(s)>> \o CollapseSpaces(Tail(s))

RECURSIVE TrimStart(_)
TrimStart(s) ==
    IF s = << >> THEN << >>
    ELSE IF IsSpace(Head(s)) THEN TrimStart(Tail(s))
    ELSE s

RECURSIVE TrimEnd(_)
TrimEnd(s) ==
    IF s = << >> THEN << >>
    ELSE IF IsSpace(s[Len(s)]) THEN TrimEnd(SubSeq(s, 1, Len(s) - 1))
    ELSE s

\* str::trim_start in the place of str::trim
TrimStartOnly(s) == TrimStart(s)

\* str::trim
Trim(s) == TrimEnd(TrimStart(s))

\* the steps with trim applied to the input instead of to the result
fts_clean_text_trim_first(s) ==
    CollapseSpaces(ReplaceNonAlnum(RemoveApostrophes(Trim(s))))

\* fts_clean_text: apostrophes out, other characters to spaces, runs of
\* whitespace to one space, trim
fts_clean_text(s) ==
    Trim(CollapseSpaces(ReplaceNonAlnum(RemoveApostrophes(s))))

\* what the caller of an operation sees: the operation, how it ended ("ok",
\* "err" returned, "logged" and returned normally, "panic"), its argument and
\* the value it returned
Called(op, res, arg, out) == [op |-> op, res |-> res, arg |-> arg, out |-> out]

\* no statement is executing; other connections see the committed content
Idle(committed) ==
    [step |-> "idle", kind |-> "none", old |-> None, new |-> None,
     committed |-> committed]

\* the primary table, the index and the three triggers all exist
SchemaExists == tbl /\ fts /\ trg = AllTriggers

\* The model follows a paginator from build to the end of its iteration with
\* no write in between: writes happen while no paginator is being iterated.
NoIteration == pag = None

\* ---------------------------------------------------------------- Init
\* The database file is either new (no table at all) or was provisioned with
\* the schema of create_table whose optional columns carry the names that
\* insert_audio_row and TryFrom<&Row> use; CREATE TABLE IF NOT EXISTS keeps
\* such a table.
Init ==
    /\ tbl \in BOOLEAN
    /\ cols = AuthorCols
    /\ rows = {}
    /\ fts = tbl
    /\ idx = EmptyBag
    /\ trg = IF tbl THEN AllTriggers ELSE NoTriggers
    /\ txnOpen = FALSE
    /\ pag = None
    /\ last = Called("new", "ok", None, None)
    /\ usedIds = {}
    /\ wr = Idle([rows |-> {}, idx |-> EmptyBag])

\* ------------------------------------------------------------ create_table
\* execute_batch("BEGIN; CREATE TABLE IF NOT EXISTS ...; CREATE VIRTUAL TABLE
\* IF NOT EXISTS ...; CREATE TRIGGER IF NOT EXISTS audio_insert ...;
\* CREATE TRIGGER IF NOT EXISTS audio_delete ...; CREATE TRIGGER audio_update
\* ...; COMMIT;").unwrap()
\* The batch stops at the first failing statement and leaves the transaction
\* it began open; unwrap() then panics.
create_table ==
    /\ \/ \* BEGIN inside an open transaction fails
          /\ txnOpen
          /\ UNCHANGED <<tbl, cols, rows, fts, idx, trg, txnOpen>>
          /\ last' = Called("create_table", "panic", SchemaExists, None)
       \/ \* CREATE TRIGGER audio_update has no IF NOT EXISTS
          /\ ~txnOpen
          /\ tbl /\ trg.update
          /\ txnOpen' = TRUE
          /\ fts' = TRUE
          /\ idx' = IF fts THEN idx ELSE EmptyBag
          /\ trg' = [trg EXCEPT !.insert = TRUE, !.delete = TRUE]
          /\ UNCHANGED <<tbl, cols, rows>>
          /\ last' = Called("create_table", "panic", SchemaExists, None)
       \/ /\ ~txnOpen
          /\ ~(tbl /\ trg.update)
          /\ tbl' = TRUE
          /\ cols' = IF tbl THEN cols ELSE UserCols
          /\ rows' = IF tbl THEN rows ELSE {}
          /\ fts' = TRUE
          /\ idx' = IF fts THEN idx ELSE EmptyBag
          /\ trg' = AllTriggers
          /\ UNCHANGED txnOpen
          /\ last' = Called("create_table", "ok", SchemaExists, None)
    /\ NoIteration
    /\ UNCHANGED <<pag, usedIds, wr>>

\* -------------------------------------------------------------- drop_table
\* execute("DROP TABLE audio"): drops the table, its rows and its triggers;
\* the delete trigger does not fire and fts5_audio is not named.
drop_table ==
    /\ IF tbl
       THEN /\ tbl' = FALSE
            /\ rows' = {}
            /\ trg' = NoTriggers
            /\ last' = Called("drop_table", "ok", None, None)
       ELSE /\ UNCHANGED <<tbl, rows, trg>>
            /\ last' = Called("drop_table", "logged", None, None)
    /\ NoIteration
    /\ UNCHANGED <<cols, fts, idx, txnOpen, pag, usedIds, wr>>

\* -------------------------------------------------------- insert_audio_row
\* INSERT INTO audio (name, tags, audio_file, created_at, author_id,
\* author_name, author_global_name) VALUES (?1 .. ?7): all values are bound.
\* The statement compiles only when the table has the author_* columns.
InsertError(a) ==
    IF ~tbl THEN "no such table: audio"
    ELSE IF cols # AuthorCols THEN "table audio has no column named author_id"
    ELSE IF ~UniqueOk(a.name, a.audio_file, rows) THEN "UNIQUE constraint failed"
    ELSE IF trg.insert /\ ~fts THEN "no such table: fts5_audio"
    ELSE "ok"

NewRow(a) ==
    [id |-> NextRowId, name |-> a.name, tags |-> a.tags,
     audio_file |-> a.audio_file, created_at |-> a.created_at,
     author |-> a.author]

insert_audio_row(a) ==
    /\ NextRowId <= MaxId
    /\ IF InsertError(a) # "ok"
       THEN /\ UNCHANGED <<rows, idx, usedIds>>
            /\ last' = Called("insert_audio_row", "err", a, InsertError(a))
       ELSE /\ rows' = rows \cup {NewRow(a)}
            /\ idx' = IF trg.insert THEN audio_insert(idx, NewRow(a)) ELSE idx
            /\ usedIds' = usedIds \cup {NextRowId}
            /\ last' = Called("insert_audio_row", "ok", a, NextRowId)
    /\ NoIteration
    /\ UNCHANGED <<tbl, cols, fts, trg, txnOpen, pag, wr>>

\* ------------------------------------------------ delete_row_by_audio_file
\* DELETE FROM audio WHERE audio_file = '{audio_file}': the value is
\* interpolated; an error is logged and the call returns normally
DeleteError(p) ==
    IF ~tbl THEN "no such table: audio"
    ELSE IF HasQuote(p) THEN "syntax error"
    ELSE IF trg.delete /\ ~fts /\ (\E r \in rows : r.audio_file = p)
         THEN "no such table: fts5_audio"
    ELSE "ok"

RECURSIVE DeleteAll(_, _)
DeleteAll(ix, gone) ==
    IF gone = {} THEN ix
    ELSE LET r == CHOOSE x \in gone : TRUE
         IN  DeleteAll(audio_delete(ix, r), gone \ {r})

delete_row_by_audio_file(p) ==
    /\ IF DeleteError(p) # "ok"
       THEN /\ UNCHANGED <<rows, idx>>
            /\ last' = Called("delete_row_by_audio_file", "logged", p, None)
       ELSE LET gone == {r \in rows : r.audio_file = p}
            IN  /\ rows' = rows \ gone
                /\ idx' = IF trg.delete THEN DeleteAll(idx, gone) ELSE idx
                /\ last' = Called("delete_row_by_audio_file", "ok", p, None)
    /\ NoIteration
    /\ UNCHANGED <<tbl, cols, fts, trg, txnOpen, pag, usedIds, wr>>

\* ---------------------------------------------------------- has_audio_file
\* query_row("SELECT id FROM audio WHERE audio_file = '{audio_file}'",
\* |row| row.get(0)) with the result typed rusqlite::Result<String>: column
\* id holds an INTEGER, which row.get::<String> rejects (InvalidColumnType);
\* optional() turns only QueryReturnedNoRows into Ok(None).
HasAudioFileQuery(p) ==
    IF ~tbl THEN "Err"
    ELSE IF HasQuote(p) THEN "Err"
    ELSE IF \E r \in rows : r.audio_file = p THEN "Err"
    ELSE "OkNone"

has_audio_file_value(p) ==
    CASE HasAudioFileQuery(p) = "OkSome" -> TRUE
      [] HasAudioFileQuery(p) = "OkNone" -> FALSE
      [] OTHER -> FALSE

has_audio_file(p) ==
    /\ last' = Called("has_audio_file", "ok", p, has_audio_file_value(p))
    /\ UNCHANGED <<tbl, cols, rows, fts, idx, trg, txnOpen, pag, usedIds, wr>>

\* ---------------------------------------------------------- find_audio_row
\* UniqueAudioTableCol: Id(i64), Name(String), AudioFile(String)
Keys ==
    [col : {"Id"}, val : 1..MaxId]
    \cup [col : {"Name"}, val : Names]
    \cup [col : {"AudioFile"}, val : Paths]

\* sql_condition: "id = '{id}' ", "name = '{name}' ", "audio_file = '...' "
\* the rows the condition selects; an interpolated quote makes the
\* statement fail to compile
sql_condition_compiles(key) == key.col = "Id" \/ ~HasQuote(key.val)

sql_condition(rs, key) ==
    IF key.col = "Id" THEN {r \in rs : r.id = key.val}
    ELSE IF key.col = "Name" THEN {r \in rs : r.name = key.val}
    ELSE {r \in rs : r.audio_file = key.val}

\* TryFrom<&Row> for AudioTableRow: row.get("author_id") and the other two
\* author columns fail with InvalidColumnName on a table without them
TryFromRowIn(c, r) == IF c = AuthorCols THEN Some(r) ELSE None

TryFromRow(r) == TryFromRowIn(cols, r)

\* query_row(sql, (), |row| AudioTableRow::try_from(row)).log_err_msg(..).ok()
\* on a database with table state t, column naming c and rows rs
FindIn(t, c, rs, key) ==
    IF ~t THEN None
    ELSE IF ~sql_condition_compiles(key) THEN None
    ELSE IF sql_condition(rs, key) = {} THEN None
    ELSE TryFromRowIn(c, CHOOSE r \in sql_condition(rs, key) : TRUE)

find_audio_row_value(key) == FindIn(tbl, cols, rows, key)

find_audio_row(key) ==
    /\ last' = Called("find_audio_row", "ok", key, find_audio_row_value(key))
    /\ UNCHANGED <<tbl, cols, rows, fts, idx, trg, txnOpen, pag, usedIds, wr>>

\* ------------------------------------------------------- direct row update
\* UPDATE audio SET name = ?, audio_file = ? WHERE id = ? issued outside the
\* API; the UNIQUE constraints and trigger audio_update apply to it
DirectUpdate(id, name, audio_file) ==
    /\ tbl
    /\ \E old \in rows :
          /\ old.id = id
          /\ <<old.name, old.audio_file>> # <<name, audio_file>>
          /\ UniqueOk(name, audio_file, rows \ {old})
          /\ ~(trg.update /\ ~fts)
          /\ LET new == [old EXCEPT !.name = name, !.audio_file = audio_file]
             IN  /\ rows' = (rows \ {old}) \cup {new}
                 /\ idx' = IF trg.update THEN audio_update(idx, old, new)
                           ELSE idx
    /\ last' = Called("direct_update", "ok", id, None)
    /\ NoIteration
    /\ UNCHANGED <<tbl, cols, fts, trg, txnOpen, pag, usedIds, wr>>

\* ----------------------------------------------------- AudioTablePaginator
RECURSIVE TextLE(_, _)
TextLE(s, t) ==
    IF s = << >> THEN TRUE
    ELSE IF t = << >> THEN FALSE
    ELSE IF Code(Head(s)) # Code(Head(t)) THEN Code(Head(s)) < Code(Head(t))
    ELSE TextLE(Tail(s), Tail(t))

\* AudioTableOrderBy::col_name and the comparison ORDER BY makes on it
OrderLE(order_by, r1, r2) ==
    CASE order_by = "Id" -> r1.id <= r2.id
      [] order_by = "CreatedAt" -> r1.created_at <= r2.created_at
      [] order_by = "Name" -> TextLE(r1.name, r2.name)

\* SELECT * FROM audio ORDER BY {order_by}: every enumeration of the rows in
\* which the column does not decrease (rows with equal values may come in
\* any order)
Ordered(order_by) ==
    LET n == Cardinality(rows)
    IN  { s \in [1..n -> rows] :
            /\ \A i, j \in 1..n : i # j => s[i] # s[j]
            /\ \A i, j \in 1..n : i < j => OrderLE(order_by, s[i], s[j]) }

\* row_iter.filter_map(...): rows whose conversion fails are left out
RECURSIVE FilterRows(_)
FilterRows(s) ==
    IF s = << >> THEN << >>
    ELSE IF TryFromRow(Head(s)) = None THEN FilterRows(Tail(s))
    ELSE <<Head(s)>> \o FilterRows(Tail(s))

\* ... LIMIT {page_limit} OFFSET {offset} of the enumeration s
Page(s, page_limit, offset) ==
    FilterRows(SubSeq(s, offset + 1, Min2(offset + page_limit, Len(s))))

\* the offset field after next_page: next_page reads self.offset and never
\* assigns it
OffsetAfter(p) == p.offset

\* AudioTablePaginatorBuilder::new(conn).order_by(o).page_limit(l).build()
build(order_by, page_limit) ==
    /\ pag = None
    /\ pag' = [order_by |-> order_by, page_limit |-> page_limit, offset |-> 0,
               pages |-> << >>, done |-> FALSE]
    /\ last' = Called("build", "ok", None, None)
    /\ UNCHANGED <<tbl, cols, rows, fts, idx, trg, txnOpen, usedIds, wr>>

\* Iterator::next: next_page, then None for an empty page or an error
next ==
    /\ pag # None
    /\ ~pag.done
    /\ Len(pag.pages) < MaxPages
    /\ IF ~tbl
       THEN \* conn.prepare(...).expect(...): no such table
            /\ pag' = None
            /\ last' = Called("next", "panic", None, None)
       ELSE \E s \in Ordered(pag.order_by) :
              LET page == Page(s, pag.page_limit, pag.offset)
              IN  IF page = << >>
                  THEN /\ pag' = [pag EXCEPT !.offset = OffsetAfter(pag),
                                             !.done = TRUE]
                       /\ last' = Called("next", "ok", None, None)
                  ELSE /\ pag' = [pag EXCEPT !.offset = OffsetAfter(pag),
                                             !.pages = Append(@, page)]
                       /\ last' = Called("next", "ok", None, Some(page))
    /\ UNCHANGED <<tbl, cols, rows, fts, idx, trg, txnOpen, usedIds, wr>>

\* ------------------------------------------ autocomplete_audio_track_names
\* the partial texts typed into the autocomplete: a short one and two of
\* LowCharLen characters that clean to "a" (a name) and to "x" (a path)
Partials == { <<"a">>, <<"a", " ", " ">>, <<"x", " ", " ">> }

\* let limit = 5
AutocompleteLimit == 5
\* if partial.len() < 3
LowCharLen == 3

\* FTS5(name, audio_file, content=audio, content_rowid=id)
FtsColumns == {"name", "audio_file"}
\* ... WHERE tags MATCH '{text}'
MatchColumn == "tags"

\* the tokens of a text as the FTS5 tokenizer cuts them: the runs of letters
\* and digits
RECURSIVE TokensOf(_, _)
TokensOf(s, cur) ==
    IF s = << >> THEN (IF cur = << >> THEN {} ELSE {cur})
    ELSE IF IsAlnum(Head(s)) THEN TokensOf(Tail(s), Append(cur, Head(s)))
    ELSE (IF cur = << >> THEN {} ELSE {cur}) \cup TokensOf(Tail(s), << >>)

Tokens(s) == TokensOf(s, << >>)

\* partial.fts_prepare_search(): the text made ready for MATCH
fts_prepare_search(s) == fts_clean_text(s)

\* the first n elements of s
Limit(s, n) == SubSeq(s, 1, Min2(n, Len(s)))

\* SELECT name FROM audio ORDER BY created_at DESC LIMIT 5, for an
\* enumeration s of the rows by ascending created_at
RecentNames(s) ==
    Limit([i \in 1..Len(s) |-> s[Len(s) + 1 - i].name], AutocompleteLimit)

\* SELECT name FROM fts5_audio WHERE tags MATCH '{text}' LIMIT 5: the rows
\* whose indexed column holds every token of the text
MatchNames(text) ==
    { r.name : r \in { x \in rows :
        \E e \in BagToSet(idx) :
            /\ e.rowid = x.id
            /\ Tokens(text) # {}
            /\ Tokens(text) \subseteq Tokens(e[MatchColumn]) } }

autocomplete_audio_track_names(partial) ==
    /\ IF Len(partial) < LowCharLen
       THEN IF ~tbl
            THEN \* .expect("Autocomplete low-char sql invalid")
                 last' = Called("autocomplete", "panic", partial, None)
            ELSE \E s \in Ordered("CreatedAt") :
                   last' = Called("autocomplete", "ok", partial, RecentNames(s))
       ELSE IF ~fts \/ MatchColumn \notin FtsColumns
            THEN \* .expect("Autocomplete sql invalid"): no such table, or
                 \* no such column: tags
                 last' = Called("autocomplete", "panic", partial, None)
            ELSE last' = Called("autocomplete", "ok", partial,
                                MatchNames(fts_prepare_search(partial)))
    /\ UNCHANGED <<tbl, cols, rows, fts, idx, trg, txnOpen, pag, usedIds, wr>>


\* the paginator goes out of scope (the for loop over it has ended or was
\* left)
drop_paginator ==
    /\ pag # None
    /\ pag' = None
    /\ last' = Called("drop_paginator", "ok", None, None)
    /\ UNCHANGED <<tbl, cols, rows, fts, idx, trg, txnOpen, usedIds, wr>>

Next ==
    \/ create_table
    \/ drop_table
    \/ \E a \in AudioTableRowInsert : insert_audio_row(a)
    \/ \E p \in Paths : delete_row_by_audio_file(p)
    \/ \E p \in Paths : has_audio_file(p)
    \/ \E key \in Keys : find_audio_row(key)
    \/ \E r \in rows, n \in Names, p \in Paths : DirectUpdate(r.id, n, p)
    \/ \E o \in OrderBys, l \in 0..MaxLimit : build(o, l)
    \/ next
    \/ drop_paginator
    \/ \E partial \in Partials : autocomplete_audio_track_names(partial)

Spec == Init /\ [][Next]_vars

\* ------------------------------------------ specification of fts_clean_text
\* a text is given (no database is involved) ...
CleanInit ==
    /\ tbl = FALSE
    /\ cols = AuthorCols
    /\ rows = {}
    /\ fts = FALSE
    /\ idx = EmptyBag
    /\ trg = NoTriggers
    /\ txnOpen = FALSE
    /\ pag = None
    /\ usedIds = {}
    /\ wr = Idle([rows |-> {}, idx |-> EmptyBag])
    /\ \E x \in Texts : last = Called("text", "ok", x, None)

\* ... and FtsCleanText::fts_clean is called on it
fts_clean ==
    /\ last.op = "text"
    /\ last' = Called("fts_clean_text", "ok", last.arg, fts_clean_text(last.arg))
    /\ UNCHANGED <<tbl, cols, rows, fts, idx, trg, txnOpen, pag, usedIds, wr>>

CleanNext == fts_clean

CleanSpec == CleanInit /\ [][CleanNext]_vars

\* ----------------------------------- a writer and readers on the same file
\* The statements of insert_audio_row, delete_row_by_audio_file and of a
\* direct update taken step by step: the row is written, then the trigger
\* writes the index, then the statement ends.  A reader on another pooled
\* connection may run between any two steps and sees the committed content.

\* every step's effect is committed at once, as if row write and trigger
\* were separate transactions
AfterStepCommitEach(step, committed, working) ==
    IF ~txnOpen THEN working ELSE committed

\* what other connections see after a step: a statement and the triggers it
\* fires are one transaction, committed when the statement ends unless the
\* connection is inside an open transaction
AfterStep(step, committed, working) ==
    IF step = "idle" /\ ~txnOpen THEN working ELSE committed

Running(step, kind, old, new, committed) ==
    [step |-> step, kind |-> kind, old |-> old, new |-> new,
     committed |-> committed]

\* INSERT INTO audio ...: the row is stored
stmt_insert_row(a) ==
    /\ wr.step = "idle"
    /\ last' = Called("statement", "running", None, None)
    /\ NextRowId <= MaxId
    /\ InsertError(a) = "ok"
    /\ rows' = rows \cup {NewRow(a)}
    /\ usedIds' = usedIds \cup {NextRowId}
    /\ wr' = Running("row", "insert", None, Some(NewRow(a)),
                     AfterStep("row", wr.committed,
                               [rows |-> rows', idx |-> idx]))
    /\ UNCHANGED <<tbl, cols, fts, idx, trg, txnOpen, pag>>

\* DELETE FROM audio WHERE audio_file = '{audio_file}': the row is removed
stmt_delete_row(p) ==
    /\ wr.step = "idle"
    /\ last' = Called("statement", "running", None, None)
    /\ DeleteError(p) = "ok"
    /\ \E r \in rows :
          /\ r.audio_file = p
          /\ rows' = rows \ {r}
          /\ wr' = Running("row", "delete", Some(r), None,
                           AfterStep("row", wr.committed,
                                     [rows |-> rows', idx |-> idx]))
    /\ UNCHANGED <<tbl, cols, fts, idx, trg, txnOpen, pag, usedIds>>

\* UPDATE audio SET name = ?, audio_file = ? WHERE id = ?: the row is changed
stmt_update_row(id, name, audio_file) ==
    /\ wr.step = "idle"
    /\ last' = Called("statement", "running", None, None)
    /\ tbl
    /\ \E old \in rows :
          /\ old.id = id
          /\ <<old.name, old.audio_file>> # <<name, audio_file>>
          /\ UniqueOk(name, audio_file, rows \ {old})
          /\ ~(trg.update /\ ~fts)
          /\ LET new == [old EXCEPT !.name = name, !.audio_file = audio_file]
             IN  /\ rows' = (rows \ {old}) \cup {new}
                 /\ wr' = Running("row", "update", Some(old), Some(new),
                                  AfterStep("row", wr.committed,
                                            [rows |-> rows', idx |-> idx]))
    /\ UNCHANGED <<tbl, cols, fts, idx, trg, txnOpen, pag, usedIds>>

\* the trigger of the statement runs
stmt_trigger ==
    /\ wr.step = "row"
    /\ last' = Called("trigger", "running", None, None)
    /\ idx' = CASE wr.kind = "insert" /\ trg.insert ->
                     audio_insert(idx, wr.new[1])
                [] wr.kind = "delete" /\ trg.delete ->
                     audio_delete(idx, wr.old[1])
                [] wr.kind = "update" /\ trg.update ->
                     audio_update(idx, wr.old[1], wr.new[1])
                [] OTHER -> idx
    /\ wr' = [wr EXCEPT !.step = "trigger",
                        !.committed = AfterStep("trigger", wr.committed,
                                                [rows |-> rows, idx |-> idx'])]
    /\ UNCHANGED <<tbl, cols, rows, fts, trg, txnOpen, pag, usedIds>>

\* the statement ends; in autocommit mode its transaction commits
stmt_end ==
    /\ wr.step = "trigger"
    /\ wr' = Idle(AfterStep("idle", wr.committed,
                            [rows |-> rows, idx |-> idx]))
    /\ last' = Called(wr.kind, "ok", None, None)
    /\ UNCHANGED <<tbl, cols, rows, fts, idx, trg, txnOpen, pag, usedIds>>

\* a reader on another connection reads the table and the index
reader_select ==
    /\ last' = Called("reader", "ok", wr.step, wr.committed)
    /\ UNCHANGED <<tbl, cols, rows, fts, idx, trg, txnOpen, pag, usedIds, wr>>

ConcNext ==
    \/ (wr.step = "idle" /\ create_table)
    \/ \E a \in AudioTableRowInsert : stmt_insert_row(a)
    \/ \E p \in Paths : stmt_delete_row(p)
    \/ \E r \in rows, n \in Names, p \in Paths : stmt_update_row(r.id, n, p)
    \/ stmt_trigger
    \/ stmt_end
    \/ reader_select

ConcSpec == Init /\ [][ConcNext]_vars

\* ------------------------------------------------------------ ButtonCustomId
\* the custom id of a button as a string and as a value.  Strings are put
\* together from at most MaxPieces pieces, which keeps every number within
\* MaxPieces digits, far inside i64.
MaxPieces == 3

Pieces ==
    { <<"p", "l", "a", "y">>, <<":", ":">>, <<":">>, <<"1">>, <<"0">>,
      <<"-">>, <<"+">>, <<"x">> }

\* the pieces put one after the other
RECURSIVE Join(_)
Join(ps) == IF ps = << >> THEN << >> ELSE Head(ps) \o Join(Tail(ps))

ButtonStrings ==
    { Join(ps) : ps \in UNION { [1..n -> Pieces] : n \in 0..MaxPieces } }

ButtonIds == { 0 - 12, 0 - 1, 0, 7, 10 }

\* enum ButtonCustomId { PlayAudio(i64), Unknown(String) }
PlayAudio(id) == [tag |-> "PlayAudio", id |-> id, text |-> << >>]

Unknown(text) == [tag |-> "Unknown", id |-> 0, text |-> text]

ButtonCustomId ==
    { PlayAudio(id) : id \in ButtonIds }
    \cup { Unknown(text) : text \in ButtonStrings }

Digits == <<"0", "1", "2", "3", "4", "5", "6", "7", "8", "9">>

IsDigit(c) == \E d \in 1..10 : Digits[d] = c

DigitOf(c) == (CHOOSE d \in 1..10 : Digits[d] = c) - 1

\* value.split("::"): the pieces between the leftmost separators, cur being
\* the piece under construction
RECURSIVE SplitFrom(_, _)
SplitFrom(s, cur) ==
    IF s = << >> THEN <<cur>>
    ELSE IF Len(s) >= 2 /\ s[1] = ":" /\ s[2] = ":"
         THEN <<cur>> \o SplitFrom(SubSeq(s, 3, Len(s)), << >>)
    ELSE SplitFrom(Tail(s), Append(cur, s[1]))

Split(s) == SplitFrom(s, << >>)

\* the number written by a sequence of digits
RECURSIVE DigitsValue(_)
DigitsValue(s) ==
    IF s = << >> THEN 0
    ELSE DigitsValue(SubSeq(s, 1, Len(s) - 1)) * 10 + DigitOf(s[Len(s)])

\* str::parse::<i64>: an optional sign, then one digit or more
ParseI64(s) ==
    LET signed == s # << >> /\ s[1] \in {"-", "+"}
        body   == IF signed THEN Tail(s) ELSE s
    IN  IF s = << >>
        THEN [ok |-> FALSE, val |-> 0,
              err |-> "cannot parse integer from empty string"]
        ELSE IF body = << >> \/ \E i \in 1..Len(body) : ~IsDigit(body[i])
        THEN [ok |-> FALSE, val |-> 0,
              err |-> "invalid digit found in string"]
        ELSE [ok |-> TRUE,
              val |-> IF s[1] = "-" THEN 0 - DigitsValue(body)
                      ELSE DigitsValue(body),
              err |-> ""]

\* the decimal digits of a natural number
RECURSIVE NatString(_)
NatString(n) ==
    IF n < 10 THEN <<Digits[n + 1]>>
    ELSE NatString(n \div 10) \o <<Digits[(n % 10) + 1]>>

\* format!("{val}") of an i64
I64String(n) == IF n < 0 THEN <<"-">> \o NatString(0 - n) ELSE NatString(n)

\* impl TryFrom<String> for ButtonCustomId: parts[1] is indexed whether or
\* not the string holds a separator
try_from_value(value) ==
    LET parts == Split(value)
    IN  IF parts[1] = <<"p", "l", "a", "y">>
        THEN IF Len(parts) < 2
             THEN [res |-> "panic", out |-> None]
             ELSE IF ParseI64(parts[2]).ok
             THEN [res |-> "ok", out |-> PlayAudio(ParseI64(parts[2]).val)]
             ELSE [res |-> "err", out |-> ParseI64(parts[2]).err]
        ELSE [res |-> "ok", out |-> Unknown(value)]

\* impl From<ButtonCustomId> for String
from_value(value) ==
    IF value.tag = "PlayAudio"
    THEN <<"p", "l", "a", "y", ":", ":">> \o I64String(value.id)
    ELSE value.text

\* a string arrives as the custom id of a pressed button, or a value is
\* about to be put on a button
ButtonInit ==
    /\ tbl = FALSE
    /\ cols = AuthorCols
    /\ rows = {}
    /\ fts = FALSE
    /\ idx = EmptyBag
    /\ trg = NoTriggers
    /\ txnOpen = FALSE
    /\ pag = None
    /\ usedIds = {}
    /\ wr = Idle([rows |-> {}, idx |-> EmptyBag])
    /\ \/ \E x \in ButtonStrings : last = Called("string", "ok", None, x)
       \/ \E v \in ButtonCustomId : last = Called("value", "ok", None, v)

\* String::from(value)
from ==
    /\ last.op = "value"
    /\ last' = Called("from", "ok", Some(last.out), from_value(last.out))
    /\ UNCHANGED <<tbl, cols, rows, fts, idx, trg, txnOpen, pag, usedIds, wr>>

\* ButtonCustomId::try_from(string), on a received string or on the string
\* String::from made; arg keeps the value the string was made from
try_from ==
    /\ last.op \in {"string", "from"}
    /\ last' = Called("try_from", try_from_value(last.out).res,
                      [of |-> last.arg, string |-> last.out],
                      try_from_value(last.out).out)
    /\ UNCHANGED <<tbl, cols, rows, fts, idx, trg, txnOpen, pag, usedIds, wr>>

ButtonNext == from \/ try_from

ButtonSpec == ButtonInit /\ [][ButtonNext]_vars

\* ================================================================== claims
Ceil(n, p) == (n + p - 1) \div p

RECURSIVE Flatten(_)
Flatten(ss) == IF ss = << >> THEN << >> ELSE Head(ss) \o Flatten(Tail(ss))

IsPrefix(s, t) == Len(s) <= Len(t) /\ SubSeq(t, 1, Len(s)) = s

Entries(id) == {e \in BagToSet(idx) : e.rowid = id}

\* C1: the search index and the primary table agree: every live record has
\* exactly one index entry with its id, name and audio_file, and no index
\* entry exists for an id without a live record.
IndexAgreesWithTable ==
    /\ \A r \in rows :
          /\ Entries(r.id) = {IdxEntry(r)}
          /\ CopiesIn(IdxEntry(r), idx) = 1
    /\ \A e \in BagToSet(idx) : \E r \in rows : r.id = e.rowid

\* C2: with page_limit P >= 1 and no write during the iteration, a paginator
\* over a table of N rows yields exactly ceil(N/P) non-empty pages and then
\* ends: it never yields more than that, and when it has ended it yielded
\* that many.
PaginatorYieldsCeilPages ==
    (pag # None /\ tbl /\ pag.page_limit >= 1) =>
        /\ Len(pag.pages) <= Ceil(Cardinality(rows), pag.page_limit)
        /\ pag.done =>
              Len(pag.pages) = Ceil(Cardinality(rows), pag.page_limit)

\* C3: with no write during the iteration, the pages yielded so far, put one
\* after the other, are the beginning of the table in the configured order
\* (no row repeated, none skipped), and the whole of it once the iteration
\* has ended.
PagesConcatIsOrderedTable ==
    (pag # None /\ tbl /\ pag.page_limit >= 1) =>
        \E s \in Ordered(pag.order_by) :
            /\ IsPrefix(Flatten(pag.pages), s)
            /\ pag.done => Flatten(pag.pages) = s

\* C4: has_audio_file(path) returns true if and only if a row with that
\* audio_file exists at the time of the call.
HasAudioFileIffExists ==
    last.op = "has_audio_file" =>
        (last.out <=> \E r \in rows : r.audio_file = last.arg)

\* C5: an id is assigned once and never reused: the id of a newly inserted
\* row was never the id of an earlier row, deleted ones included, and a live
\* row keeps its id.
IdNeverReused ==
    [][\A r \in rows' :
          r.id \notin {x.id : x \in rows} => r.id \notin usedIds]_vars

\* C6: no two live rows share a name and no two live rows share an
\* audio_file.
UniqueNameAndPath ==
    \A r1, r2 \in rows :
        r1 # r2 => r1.name # r2.name /\ r1.audio_file # r2.audio_file

\* C6 witness: two rows are live and an insert was just refused
TwoRowsAndRefusedInsert ==
    /\ Cardinality(rows) = 2
    /\ last.op = "insert_audio_row"
    /\ last.res = "err"

\* C7: insert_audio_row of a record whose name or audio_file is already
\* stored returns a unique-constraint error and adds no row and no index
\* entry; insert_audio_row of a record with fresh name and path on a created
\* schema succeeds and leaves exactly one row and one index entry for it.
InsertContract ==
    [][last'.op = "insert_audio_row" =>
        IF ~UniqueOk(last'.arg.name, last'.arg.audio_file, rows)
        THEN /\ last'.res = "err"
             /\ last'.out = "UNIQUE constraint failed"
             /\ rows' = rows
             /\ idx' = idx
        ELSE SchemaExists =>
             /\ last'.res = "ok"
             /\ \E r \in rows' :
                   /\ rows' = rows \cup {r}
                   /\ r \notin rows
                   /\ r.name = last'.arg.name
                   /\ r.audio_file = last'.arg.audio_file
                   /\ idx' = idx (+) SetToBag({IdxEntry(r)})]_vars

CreateTableIdempotent ==
    [][(last'.op = "create_table" /\ SchemaExists /\ cols = UserCols) =>
            /\ last'.res = "ok"
            /\ UNCHANGED <<tbl, cols, rows, fts, idx, trg>>]_vars

\* C10: after drop_table returned without a logged failure neither the
\* primary table nor the search index exists; a failing drop is only logged
\* and control returns to the caller.
DropRemovesTableAndIndex ==
    last.op = "drop_table" =>
        /\ last.res \in {"ok", "logged"}
        /\ last.res = "ok" => ~tbl /\ ~fts

\* the letters, digits and commas of s, in order
RECURSIVE Kept(_)
Kept(s) ==
    IF s = << >> THEN << >>
    ELSE IF IsAlnum(Head(s)) \/ Head(s) = "," THEN <<Head(s)>> \o Kept(Tail(s))
    ELSE Kept(Tail(s))

\* the letters and digits of s with one space for every run of other
\* characters between them; apostrophes separate nothing
RECURSIVE WordsJoined(_, _)
WordsJoined(s, gap) ==
    IF s = << >> THEN << >>
    ELSE IF IsAlnum(Head(s))
         THEN (IF gap THEN <<" ", Head(s)>> ELSE <<Head(s)>>)
              \o WordsJoined(Tail(s), FALSE)
    ELSE IF Head(s) = "'" THEN WordsJoined(Tail(s), gap)
    ELSE WordsJoined(Tail(s), TRUE)

\* C11: fts_clean_text is idempotent: cleaning its result again changes
\* nothing.
CleanIsIdempotent ==
    last.op = "fts_clean_text" => fts_clean_text(last.out) = last.out

\* C11 witness: a text that cleaning changed has been cleaned
CleanedChangedText ==
    /\ last.op = "fts_clean_text"
    /\ last.out # last.arg
    /\ last.out # << >>

\* C12: fts_clean_text returns the alphanumeric words of the input joined by
\* single spaces: punctuation and control characters (comma included) only
\* separate words and are not in the result, an apostrophe is deleted
\* without separating.
CleanIsWordsJoined ==
    last.op = "fts_clean_text" =>
        last.out = Trim(WordsJoined(last.arg, FALSE))

Matching(text) ==
    { r \in rows :
        /\ Tokens(text) # {}
        /\ Tokens(text) \subseteq Tokens(r.name) \cup Tokens(r.audio_file) }

\* C14: a full-text query whose cleaned text matches the name or the
\* audio_file of a stored record returns that record, and it returns no
\* record that is not stored any more.
SearchReturnsStoredRecords ==
    (/\ last.op = "autocomplete"
     /\ Len(last.arg) >= LowCharLen
     /\ SchemaExists) =>
        /\ Matching(fts_clean_text(last.arg)) # {} =>
              /\ last.res = "ok"
              /\ \A r \in Matching(fts_clean_text(last.arg)) :
                    r.name \in last.out
        /\ last.res = "ok" =>
              last.out \subseteq
                  {r.name : r \in Matching(fts_clean_text(last.arg))}

\* C15: whatever the interleaving of a writer (insert, delete, update of a
\* record) with readers on other connections, what a reader sees never holds
\* a row without its index entry nor an index entry without its row.
ReaderSeesRowWithIndexEntry ==
    last.op = "reader" =>
        /\ \A r \in last.out.rows : CopiesIn(IdxEntry(r), last.out.idx) = 1
        /\ \A e \in BagToSet(last.out.idx) :
              \E r \in last.out.rows : IdxEntry(r) = e

\* C15 witness: a reader read while a statement had written its row and the
\* trigger had not yet run
ReaderReadInsideStatement ==
    /\ last.op = "reader"
    /\ last.arg = "row"
    /\ wr.step = "row"
    /\ last.out.rows # rows

\* C16: every name and every audio_file held by the index is in normalized
\* form: fts_clean_text leaves it as it is.
IndexedTextIsClean ==
    \A e \in BagToSet(idx) :
        /\ fts_clean_text(e.name) = e.name
        /\ fts_clean_text(e.audio_file) = e.audio_file

\* the calls of next made on the paginator so far
NextCalls(p) == Len(p.pages) + (IF p.done THEN 1 ELSE 0)

\* C17: each call of next_page advances the offset by page_limit: after k
\* calls the paginator's offset is k * page_limit.
OffsetIsCallsTimesLimit ==
    pag # None => pag.offset = NextCalls(pag) * pag.page_limit

\* C18: next() ends the iteration with None whenever the page query fails,
\* at preparation as well as at execution; it never aborts its caller.
NextNeverAborts ==
    last.op = "next" => last.res # "panic"

\* C19: whatever the path p, delete_row_by_audio_file(p) on a store with
\* its schema removes exactly the rows whose audio_file is p together with
\* their index entries, and changes nothing when there is none.
DeleteRemovesExactlyTheMatch ==
    [][(/\ last'.op = "delete_row_by_audio_file"
        /\ pag' = pag
        /\ SchemaExists) =>
            LET gone == {r \in rows : r.audio_file = last'.arg}
            IN  /\ rows' = rows \ gone
                /\ idx' = DeleteAll(idx, gone)]_vars

\* C20: whatever the key (Id, Name or AudioFile), find_audio_row(key)
\* returns the stored record the key designates, and None when there is
\* none.
FindReturnsTheMatch ==
    (last.op = "find_audio_row" /\ tbl /\ cols = AuthorCols) =>
        IF sql_condition(rows, last.arg) = {}
        THEN last.out = None
        ELSE \E r \in sql_condition(rows, last.arg) : last.out = Some(r)

\* C21: create_table is all-or-nothing: after every call the table, the
\* index and the three triggers are either all as the call intended or all
\* as they were before the call, and the connection holds no open,
\* uncommitted transaction.
CreateTableAllOrNothing ==
    [][(last'.op = "create_table" /\ pag' = pag) =>
            /\ ~txnOpen'
            /\ \/ tbl' /\ fts' /\ trg' = AllTriggers
               \/ UNCHANGED <<tbl, fts, trg>>]_vars

\* C22: the conversion of a ButtonCustomId to a string and back returns the
\* value: for every value v, PlayAudio(id) or Unknown(s),
\* ButtonCustomId::try_from(String::from(v)) is Ok(v).
TryFromRoundTrips ==
    (last.op = "try_from" /\ last.arg.of # None) =>
        /\ last.res = "ok"
        /\ last.out = last.arg.of[1]

\* C23: ButtonCustomId::try_from is total: on every string it returns Ok of
\* a PlayAudio or Unknown value or Err of a message and never aborts.
TryFromIsTotal ==
    last.op = "try_from" =>
        \/ last.res = "ok" /\ last.out.tag \in {"PlayAudio", "Unknown"}
        \/ last.res = "err" /\ last.out # ""
====
